---------------------------- MODULE Spec2Model ----------------------------
(***************************************************************************)
(* Asteroid Dodge (src/game.js): the simulation core - the title/playing/  *)
(* gameover lifecycle, the per-frame update, the surge timer machine, the  *)
(* ship, the asteroid collection and the localStorage score list.          *)
(*                                                                         *)
(* Numbers.  Every JavaScript number is an IEEE-754 double.                *)
(*  - Times kept in seconds (dt, elapsedTime, gameOverTimer, the scores)   *)
(*    are modelled as doubles: a non-negative double below 4096 is the     *)
(*    triple <<h, m, l>> standing for (h*2^40 + m*2^20 + l) * 2^-60, and   *)
(*    FAdd rounds the exact sum to 53 significant bits, ties to even.      *)
(*  - Times kept in milliseconds (spawnTimer, surgeTimer,                  *)
(*    surgeDurationTimer) only ever hold integers here, on which double    *)
(*    arithmetic is exact, and are modelled as integers.                   *)
(*  - Positions are integers in 1/1000 pixel; velocities in pixel/second.  *)
(***************************************************************************)
EXTENDS Integers, Sequences, FiniteSets, TLC

VARIABLES
    state,              \* this.state: "title" | "playing" | "gameover"
    loopAlive,          \* a requestAnimationFrame callback is pending
    storage,            \* localStorage["asteroidDodgeScores"]
    bestScore,          \* this.bestScore
    finalScore,         \* this.finalScore
    topScores,          \* this.topScores
    ship,               \* this.ship: [x, y]
    asteroids,          \* this.asteroids: sequence of [x, y, size, baseVx, baseVy]
    elapsedTime,        \* this.elapsedTime (seconds, double)
    spawnTimer,         \* this.spawnTimer (ms)
    surgeActive,        \* this.surgeActive
    surgeTimer,         \* this.surgeTimer (ms)
    surgeDurationTimer, \* this.surgeDurationTimer (ms)
    speedMultiplier,    \* this.speedMultiplier, in tenths (10 is 1.0, 15 is 1.5)
    gameOverReady,      \* this.gameOverReady
    gameOverTimer,      \* this.gameOverTimer (seconds, double)
    hist                \* observation only: what the last step did, and counters

vars == <<state, loopAlive, storage, bestScore, finalScore, topScores, ship,
          asteroids, elapsedTime, spawnTimer, surgeActive, surgeTimer,
          surgeDurationTimer, speedMultiplier, gameOverReady, gameOverTimer, hist>>

-----------------------------------------------------------------------------
(* IEEE-754 doubles in [0, 4096): <<h, m, l>> = (h*2^40 + m*2^20 + l) * 2^-60 *)

RECURSIVE Pow2(_)
Pow2(n) == IF n = 0 THEN 1 ELSE 2 * Pow2(n - 1)

Limb == Pow2(20)

RECURSIVE BitLen(_)
BitLen(n) == IF n = 0 THEN 0 ELSE 1 + BitLen(n \div 2)

\* carry propagation of an exact limb-wise sum
FNorm(h, m, l) ==
    LET m1 == m + (l \div Limb)
    IN  <<h + (m1 \div Limb), m1 % Limb, l % Limb>>

\* round to 53 significant bits, ties to even (the rounding of every double operation)
FRound(v) ==
    LET s == IF v[1] = 0 THEN 0 ELSE 40 + BitLen(v[1]) - 53
    IN  IF s <= 0 THEN v
        ELSE LET q    == Pow2(s)
                 r    == v[3] % q
                 keep == v[3] - r
                 odd  == (v[3] \div q) % 2 = 1
                 up   == (2 * r > q) \/ (2 * r = q /\ odd)
             IN  FNorm(v[1], v[2], IF up THEN keep + q ELSE keep)

\* a + b on doubles
FAdd(a, b) == FRound(FNorm(a[1] + b[1], a[2] + b[2], a[3] + b[3]))

\* a < b, a > b, a >= b on doubles
FLt(a, b) ==
    \/ a[1] < b[1]
    \/ a[1] = b[1] /\ a[2] < b[2]
    \/ a[1] = b[1] /\ a[2] = b[2] /\ a[3] < b[3]

FGt(a, b) == FLt(b, a)

FGe(a, b) == ~FLt(a, b)

\* the double of a whole number of seconds
FInt(n) == <<n * Limb, 0, 0>>

F0 == FInt(0)

\* the doubles nearest 0.05, 0.016 and 0.8
F005 == <<52428, 838860, 838864>>

F0016 == <<16777, 226492, 436208>>

F08 == <<838860, 838860, 838912>>

-----------------------------------------------------------------------------
(* CONFIG (src/game.js:8-40) *)

canvasWidth == 600

canvasHeight == 600

shipSpeed == 340

shipSize == 4

asteroidSpawnInterval == 200

asteroidBatchSize == 3

\* CONFIG.surgeInterval = [5000, 10000], CONFIG.surgeDuration = [1500, 2500]
surgeIntervalMin == 5000

surgeIntervalMax == 10000

surgeDurationMin == 1500

surgeDurationMax == 2500

\* CONFIG.surgeMultiplier = 1.5, in tenths like speedMultiplier
surgeMultiplier == 15

maxScoresSaved == 10

\* positions are kept in 1/1000 pixel
Px == 10 * 100

Min(a, b) == IF a < b THEN a ELSE b

Max(a, b) == IF a > b THEN a ELSE b

clamp(val, lo, hi) == Max(lo, Min(hi, val))

-----------------------------------------------------------------------------
(* ScoreManager (src/game.js:68-103).  storage is the raw localStorage      *)
(* entry: missing, text JSON.parse rejects ("garbage"), JSON text of a      *)
(* number ("scalar") or of an object ("object"), or JSON text of a list.    *)

StoreKinds == {"missing", "garbage", "scalar", "object", "list"}

Store(kind, v) == [kind |-> kind, v |-> v]

\* insert x into a descending list, after the entries that are >= x
RECURSIVE InsertDesc(_, _)
InsertDesc(x, s) ==
    IF s = <<>> THEN <<x>>
    ELSE IF FLt(Head(s), x) THEN <<x>> \o s
         ELSE <<Head(s)>> \o InsertDesc(x, Tail(s))

\* scores.sort((a, b) => b - a)
RECURSIVE SortDesc(_)
SortDesc(s) == IF s = <<>> THEN <<>> ELSE InsertDesc(s[Len(s)], SortDesc(SubSeq(s, 1, Len(s) - 1)))

\* scores.slice(0, n)
Slice(s, n) == SubSeq(s, 1, Min(n, Len(s)))

\* _load(): the parsed value; arr tells whether it is an array
Load(st) ==
    IF st.kind \in {"missing", "garbage"} THEN [arr |-> TRUE, v |-> <<>>]
    ELSE IF st.kind = "list" THEN [arr |-> TRUE, v |-> st.v]
    ELSE [arr |-> FALSE, v |-> <<>>]

\* mutant: _save without its try/catch
SaveNoCatch(st, scores, writeOk) ==
    [st |-> IF writeOk THEN [kind |-> "list", v |-> scores] ELSE st, tries |-> 1,
     threw |-> ~writeOk]

\* _save(scores): setItem may throw (quota); the catch swallows it.
\* tries counts the setItem calls, threw tells whether an exception leaves _save
Save(st, scores, writeOk) ==
    [st |-> IF writeOk THEN Store("list", scores) ELSE st, tries |-> 1, threw |-> FALSE]

\* getScores(): .sort on a value that is no array raises a TypeError
getScores(st) ==
    LET p == Load(st)
    IN  IF p.arr THEN [threw |-> FALSE, v |-> SortDesc(p.v)]
        ELSE [threw |-> TRUE, v |-> <<>>]

\* getBest()
getBest(st) ==
    LET r == getScores(st)
    IN  IF r.threw THEN [threw |-> TRUE, v |-> F0]
        ELSE [threw |-> FALSE, v |-> IF Len(r.v) > 0 THEN r.v[1] ELSE F0]

\* mutant: addScore without its sort
addScoreMaxNoSort(st, score, writeOk, max) ==
    LET p == Load(st)
    IN  IF ~p.arr THEN [st |-> st, tries |-> 0, threw |-> TRUE]
        ELSE Save(st, Slice(Append(p.v, score), max), writeOk)

\* addScore(score) with CONFIG.maxScoresSaved = max: .push on a non-array raises
addScoreMax(st, score, writeOk, max) ==
    LET p == Load(st)
    IN  IF ~p.arr THEN [st |-> st, tries |-> 0, threw |-> TRUE]
        ELSE Save(st, Slice(SortDesc(Append(p.v, score)), max), writeOk)

addScore(st, score, writeOk) == addScoreMax(st, score, writeOk, maxScoresSaved)

-----------------------------------------------------------------------------
(* Ship (src/game.js:132-160).  keys is the held state of the four          *)
(* directions (ArrowLeft || a, ArrowRight || d, ArrowUp || w, ArrowDown ||  *)
(* s), sampled from this.keys by update.                                    *)

Keys(l, r, u, d) == [left |-> l, right |-> r, up |-> u, down |-> d]

AllKeys == {Keys(l, r, u, d) : l \in BOOLEAN, r \in BOOLEAN, u \in BOOLEAN, d \in BOOLEAN}

\* new Ship(canvasWidth / 2, canvasHeight / 2)
NewShip == [x |-> (canvasWidth * Px) \div 2, y |-> (canvasHeight * Px) \div 2]

\* 1/sqrt(2) in 1/10000, the value of dx / len on a diagonal
Diag == 7071

Unit == 10 * Px

\* mutant: no division by len
NormAbsRaw(dx, dy) == IF dx = 0 THEN 0 ELSE Unit

\* |dx / len| in 1/10000 for dx, dy in {-1, 0, 1}
NormAbs(dx, dy) ==
    IF dx = 0 THEN 0
    ELSE IF dy = 0 THEN Unit ELSE Diag

\* |dx * shipSpeed * dt| in 1/1000 pixel, dt in ms
ShipMove(dx, dy, dtMs) ==
    LET q == shipSpeed * dtMs
        n == NormAbs(dx, dy)
    IN  dx * ((q \div Unit) * n + ((q % Unit) * n) \div Unit)

\* mutant: a step that would leave the field is not taken
ShipUpdateStopsShort(s, dtMs, keys) ==
    LET dx == (IF keys.right THEN 1 ELSE 0) - (IF keys.left THEN 1 ELSE 0)
        dy == (IF keys.down THEN 1 ELSE 0) - (IF keys.up THEN 1 ELSE 0)
        x1 == s.x + ShipMove(dx, dy, dtMs)
        y1 == s.y + ShipMove(dy, dx, dtMs)
    IN  [x |-> IF x1 = clamp(x1, shipSize * Px, (canvasWidth - shipSize) * Px)
               THEN x1 ELSE s.x,
         y |-> IF y1 = clamp(y1, shipSize * Px, (canvasHeight - shipSize) * Px)
               THEN y1 ELSE s.y]

\* mutant: update without the clamp
ShipUpdateNoClamp(s, dtMs, keys) ==
    LET dx == (IF keys.right THEN 1 ELSE 0) - (IF keys.left THEN 1 ELSE 0)
        dy == (IF keys.down THEN 1 ELSE 0) - (IF keys.up THEN 1 ELSE 0)
    IN  [x |-> s.x + ShipMove(dx, dy, dtMs), y |-> s.y + ShipMove(dy, dx, dtMs)]

ShipUpdate(s, dtMs, keys) ==
    LET dx == (IF keys.right THEN 1 ELSE 0) - (IF keys.left THEN 1 ELSE 0)
        dy == (IF keys.down THEN 1 ELSE 0) - (IF keys.up THEN 1 ELSE 0)
        x1 == s.x + ShipMove(dx, dy, dtMs)
        y1 == s.y + ShipMove(dy, dx, dtMs)
    IN  [x |-> clamp(x1, shipSize * Px, (canvasWidth - shipSize) * Px),
         y |-> clamp(y1, shipSize * Px, (canvasHeight - shipSize) * Px)]

-----------------------------------------------------------------------------
(* Asteroid (src/game.js:192-274).  The constructor's random draws are one  *)
(* record: the edge (0 top, 1 right, 2 bottom, 3 left), the coordinate      *)
(* along it, the size, and the base velocity cos/sin(angle) * speed in      *)
(* pixel/second.  rotation and vertices are cosmetic and left out.          *)

Draw(edge, along, size, vx, vy) ==
    [edge |-> edge, along |-> along, size |-> size, vx |-> vx, vy |-> vy]

\* right edge, mid height, aimed straight across: angle pi, speed 240
DrawAcross == Draw(1, 300, 12, -240, 0)

\* top edge at x = 0, aimed down and turned by the spread: speed 200 along (-3/5, 4/5)
DrawCorner == Draw(0, 0, 4, -120, 160)

\* constructor and _spawnFromEdge
NewAsteroid(d) ==
    LET margin == (d.size + 5) * Px
        W == canvasWidth * Px
        H == canvasHeight * Px
    IN  [x |-> CASE d.edge = 0 -> d.along * Px
                 [] d.edge = 1 -> W + margin
                 [] d.edge = 2 -> d.along * Px
                 [] OTHER      -> 0 - margin,
         y |-> CASE d.edge = 0 -> 0 - margin
                 [] d.edge = 1 -> d.along * Px
                 [] d.edge = 2 -> H + margin
                 [] OTHER      -> d.along * Px,
         size |-> d.size, baseVx |-> d.vx, baseVy |-> d.vy]

\* update(dt, speedMultiplier): velocity recomputed from the base velocity
AsteroidUpdate(a, dtMs, mult) ==
    [a EXCEPT !.x = a.x + (a.baseVx * mult * dtMs) \div 10,
              !.y = a.y + (a.baseVy * mult * dtMs) \div 10]

isOffScreen(a) ==
    LET margin == (a.size + 60) * Px
    IN  \/ a.x < 0 - margin
        \/ a.x > canvasWidth * Px + margin
        \/ a.y < 0 - margin
        \/ a.y > canvasHeight * Px + margin

\* asteroids.splice(i, 1)
Splice(s, i) == SubSeq(s, 1, i - 1) \o SubSeq(s, i + 1, Len(s))

\* mutant: the loop runs forward, so a splice makes it skip the next entry
RECURSIVE ForwardFrom(_, _, _, _)
ForwardFrom(as, k, dtMs, mult) ==
    IF k > Len(as) THEN as
    ELSE LET a   == AsteroidUpdate(as[k], dtMs, mult)
             as1 == [as EXCEPT ![k] = a]
         IN  ForwardFrom(IF isOffScreen(a) THEN Splice(as1, k) ELSE as1, k + 1, dtMs, mult)

StepAsteroidsForward(as, i, dtMs, mult) == ForwardFrom(as, 1, dtMs, mult)

\* for (i = length - 1; i >= 0; i--) { update; if (isOffScreen) splice }
RECURSIVE StepAsteroids(_, _, _, _)
StepAsteroids(as, i, dtMs, mult) ==
    IF i = 0 THEN as
    ELSE LET a   == AsteroidUpdate(as[i], dtMs, mult)
             as1 == [as EXCEPT ![i] = a]
         IN  StepAsteroids(IF isOffScreen(a) THEN Splice(as1, i) ELSE as1, i - 1, dtMs, mult)

Abs(n) == IF n < 0 THEN 0 - n ELSE n

\* mutant: the hitbox test is <=
CollidesInclusive(s, a) ==
    LET lim == (shipSize + a.size) * 8 * (Px \div 10)
        dx  == Abs(s.x - a.x)
        dy  == Abs(s.y - a.y)
    IN  dx <= lim /\ dy <= lim /\ dx * dx + dy * dy <= lim * lim

\* dist(ship, asteroid) < (ship.size + asteroid.size) * 0.8
Collides(s, a) ==
    LET lim == (shipSize + a.size) * 8 * (Px \div 10)
        dx  == Abs(s.x - a.x)
        dy  == Abs(s.y - a.y)
    IN  dx < lim /\ dy < lim /\ dx * dx + dy * dy < lim * lim

\* mutant: the collision loop without its return
RECURSIVE CollisionCallsNoReturn(_, _)
CollisionCallsNoReturn(s, as) ==
    IF as = <<>> THEN 0
    ELSE (IF Collides(s, Head(as)) THEN 1 ELSE 0) + CollisionCallsNoReturn(s, Tail(as))

\* how often the collision loop calls triggerGameOver: it returns at the first hit
RECURSIVE CollisionCalls(_, _)
CollisionCalls(s, as) ==
    IF as = <<>> THEN 0
    ELSE IF Collides(s, Head(as)) THEN 1
         ELSE CollisionCalls(s, Tail(as))

-----------------------------------------------------------------------------
(* Game (src/game.js:346-562) *)

\* bounds of the exploration
MaxTicks == 12

MaxRuns == 2

MaxGameOverTicks == 17

MaxShortFrames == 1

\* mutant: dt without Math.min
DtNoCap(gap) ==
    IF gap >= 1000 THEN [s |-> FInt(gap \div 1000), ms |-> gap, gap |-> gap]
    ELSE IF gap >= 50 THEN [s |-> F005, ms |-> 50, gap |-> gap]
    ELSE IF gap = 16 THEN [s |-> F0016, ms |-> 16, gap |-> gap]
    ELSE [s |-> F0, ms |-> 0, gap |-> gap]

\* host frame gaps (timestamp - lastTime, ms) and the dt loop() derives from each:
\* Math.min(gap / 1000, 0.05), and dt * 1000 as updatePlaying/updateSurge compute it
Dt(gap) ==
    IF gap >= 50 THEN [s |-> F005, ms |-> 50, gap |-> gap]
    ELSE IF gap = 16 THEN [s |-> F0016, ms |-> 16, gap |-> gap]
    ELSE [s |-> F0, ms |-> 0, gap |-> gap]

GapSet == {16, 50, 1000}

\* the gaps of a host that keeps its frame rate
RunGaps == {16, 50}

NoKeys == Keys(FALSE, FALSE, FALSE, FALSE)

\* held directions sampled by the ticks of a run
RunKeys == {NoKeys, Keys(FALSE, TRUE, FALSE, FALSE)}

\* rand(surgeInterval[0], surgeInterval[1]) and rand(surgeDuration[0], surgeDuration[1])
SurgeIntervalDraws == {surgeIntervalMin, surgeIntervalMin + 16, surgeIntervalMax - 1}

SurgeDurationDraws == {surgeDurationMin, surgeDurationMax - 1}

RunSurgeDraws == {surgeIntervalMin}

\* the draws of one spawn batch: asteroidBatchSize constructor calls, k of them
\* DrawAcross (those first) and the others DrawCorner
Batch(k) == [i \in 1..asteroidBatchSize |-> IF i <= k THEN DrawAcross ELSE DrawCorner]

Batches == {Batch(0), Batch(2)}

\* mutant: the countdown tests are < 0
updateSurgeStrict(active, timer, durTimer, mult, dtMs, nextInterval, nextDuration) ==
    IF active
    THEN IF durTimer - dtMs < 0
         THEN [active |-> FALSE, timer |-> nextInterval, durTimer |-> durTimer - dtMs,
               mult |-> 10]
         ELSE [active |-> TRUE, timer |-> timer, durTimer |-> durTimer - dtMs,
               mult |-> mult]
    ELSE IF timer - dtMs < 0
         THEN [active |-> TRUE, timer |-> timer - dtMs, durTimer |-> nextDuration,
               mult |-> surgeMultiplier]
         ELSE [active |-> FALSE, timer |-> timer - dtMs, durTimer |-> durTimer,
               mult |-> mult]

\* mutant: the time left over when a countdown fires is fed to the next
\* countdown in the same call
updateSurgeCatchUp(active, timer, durTimer, mult, dtMs, nextInterval, nextDuration) ==
    IF active
    THEN IF durTimer - dtMs <= 0
         THEN IF nextInterval - (dtMs - durTimer) <= 0
              THEN [active |-> TRUE, timer |-> nextInterval - (dtMs - durTimer),
                    durTimer |-> nextDuration, mult |-> surgeMultiplier]
              ELSE [active |-> FALSE, timer |-> nextInterval - (dtMs - durTimer),
                    durTimer |-> durTimer - dtMs, mult |-> 10]
         ELSE [active |-> TRUE, timer |-> timer, durTimer |-> durTimer - dtMs,
               mult |-> mult]
    ELSE IF timer - dtMs <= 0
         THEN IF nextDuration - (dtMs - timer) <= 0
              THEN [active |-> FALSE, timer |-> nextInterval,
                    durTimer |-> nextDuration - (dtMs - timer), mult |-> 10]
              ELSE [active |-> TRUE, timer |-> timer - dtMs,
                    durTimer |-> nextDuration - (dtMs - timer), mult |-> surgeMultiplier]
         ELSE [active |-> FALSE, timer |-> timer - dtMs, durTimer |-> durTimer,
               mult |-> mult]

\* mutant: the end of a surge draws no new interval
updateSurgeNoRedraw(active, timer, durTimer, mult, dtMs, nextInterval, nextDuration) ==
    IF active
    THEN IF durTimer - dtMs <= 0
         THEN [active |-> FALSE, timer |-> timer, durTimer |-> durTimer - dtMs,
               mult |-> 10]
         ELSE [active |-> TRUE, timer |-> timer, durTimer |-> durTimer - dtMs,
               mult |-> mult]
    ELSE IF timer - dtMs <= 0
         THEN [active |-> TRUE, timer |-> timer - dtMs, durTimer |-> nextDuration,
               mult |-> surgeMultiplier]
         ELSE [active |-> FALSE, timer |-> timer - dtMs, durTimer |-> durTimer,
               mult |-> mult]

\* mutant: the end of a surge leaves the multiplier alone
updateSurgeKeepsMult(active, timer, durTimer, mult, dtMs, nextInterval, nextDuration) ==
    IF active
    THEN IF durTimer - dtMs <= 0
         THEN [active |-> FALSE, timer |-> nextInterval, durTimer |-> durTimer - dtMs,
               mult |-> mult]
         ELSE [active |-> TRUE, timer |-> timer, durTimer |-> durTimer - dtMs,
               mult |-> mult]
    ELSE IF timer - dtMs <= 0
         THEN [active |-> TRUE, timer |-> timer - dtMs, durTimer |-> nextDuration,
               mult |-> surgeMultiplier]
         ELSE [active |-> FALSE, timer |-> timer - dtMs, durTimer |-> durTimer,
               mult |-> mult]

\* updateSurge(dt): the surge fields afterwards
updateSurge(active, timer, durTimer, mult, dtMs, nextInterval, nextDuration) ==
    IF active
    THEN IF durTimer - dtMs <= 0
         THEN [active |-> FALSE, timer |-> nextInterval, durTimer |-> durTimer - dtMs,
               mult |-> 10]
         ELSE [active |-> TRUE, timer |-> timer, durTimer |-> durTimer - dtMs,
               mult |-> mult]
    ELSE IF timer - dtMs <= 0
         THEN [active |-> TRUE, timer |-> timer - dtMs, durTimer |-> nextDuration,
               mult |-> surgeMultiplier]
         ELSE [active |-> FALSE, timer |-> timer - dtMs, durTimer |-> durTimer,
               mult |-> mult]

\* whether this updateSurge call draws a new interval / a new duration
DrawsInterval(dtMs) == surgeActive /\ surgeDurationTimer - dtMs <= 0

DrawsDuration(dtMs) == ~surgeActive /\ surgeTimer - dtMs <= 0

\* mutant: the best score is read before the run's score is committed
triggerGameOverBestFirst(g, elapsed, writeOk) ==
    LET r  == addScore(g.storage, elapsed, writeOk)
        g1 == [g EXCEPT !.state = "gameover", !.ready = FALSE, !.timer = F0,
                        !.addCalls = @ + 1, !.score = elapsed,
                        !.setItems = @ + r.tries,
                        !.writeFailed = r.tries > 0 /\ ~writeOk]
    IN  IF r.threw THEN [g1 EXCEPT !.crashed = TRUE]
        ELSE LET b == getBest(g.storage)
                 t == getScores(r.st)
             IN  [g1 EXCEPT !.storage = r.st,
                            !.final = elapsed,
                            !.best = IF b.threw THEN @ ELSE b.v,
                            !.top = IF t.threw THEN @ ELSE t.v,
                            !.crashed = b.threw \/ t.threw]

\* triggerGameOver() on the fields it touches; elapsed is this.elapsedTime.
\* An exception of addScore leaves the rest of the method undone.
triggerGameOver(g, elapsed, writeOk) ==
    LET r  == addScore(g.storage, elapsed, writeOk)
        g1 == [g EXCEPT !.state = "gameover", !.ready = FALSE, !.timer = F0,
                        !.addCalls = @ + 1, !.score = elapsed,
                        !.setItems = @ + r.tries,
                        !.writeFailed = r.tries > 0 /\ ~writeOk]
    IN  IF r.threw THEN [g1 EXCEPT !.crashed = TRUE]
        ELSE LET b == getBest(r.st)
                 t == getScores(r.st)
             IN  [g1 EXCEPT !.storage = r.st,
                            !.final = elapsed,
                            !.best = IF b.threw THEN @ ELSE b.v,
                            !.top = IF t.threw THEN @ ELSE t.v,
                            !.crashed = b.threw \/ t.threw]

RECURSIVE TriggerTimes(_, _, _, _)
TriggerTimes(g, n, elapsed, writeOk) ==
    IF n = 0 THEN g ELSE TriggerTimes(triggerGameOver(g, elapsed, writeOk), n - 1, elapsed, writeOk)

\* hist: crashed - an exception left a handler uncaught; addCalls, setItems - the
\* addScore and localStorage.setItem calls of the current run; score - the last
\* argument of addScore; writeFailed - the run's setItem failed; ticks, goTicks,
\* short - the playing, game-over and short frames of the current run; runs - the
\* runs started; c0 - the surge countdown as last drawn; fed - the ms fed to
\* updateSurge since; total - fed including the last call, also when that call
\* drew a new countdown; keys - the directions held on the run's last playing tick;
\* gap - the host frame gap of the run's last tick; batches, spawned - the spawn
\* batches and the Asteroid constructor calls of the run; culled - the asteroids
\* the run's last tick removed
NoHist == [crashed |-> FALSE, addCalls |-> 0, setItems |-> 0, score |-> F0,
           writeFailed |-> FALSE, ticks |-> 0, goTicks |-> 0, short |-> 0, runs |-> 0,
           fed |-> 0, total |-> 0, c0 |-> 0, keys |-> NoKeys, gap |-> 0, batches |-> 0,
           spawned |-> 0, culled |-> 0]

\* the constructor: state, bestScore, and the first requestAnimationFrame,
\* which an exception of getBest() prevents
InitWith(st) ==
    LET b == getBest(st)
    IN  /\ storage = st
        /\ state = "title"
        /\ bestScore = b.v
        /\ loopAlive = ~b.threw
        /\ hist = [NoHist EXCEPT !.crashed = b.threw]
        /\ finalScore = F0
        /\ topScores = <<>>
        /\ ship = NewShip
        /\ asteroids = <<>>
        /\ elapsedTime = F0
        /\ spawnTimer = 0
        /\ surgeActive = FALSE
        /\ surgeTimer = 0
        /\ surgeDurationTimer = 0
        /\ speedMultiplier = 10
        /\ gameOverReady = FALSE
        /\ gameOverTimer = F0

\* what localStorage may hold when the page loads
StoredLow == <<FInt(2), FInt(1), FInt(1), F08, F08, F005, F005, F005, F005, F005>>

StoredHigh == [i \in 1..maxScoresSaved |-> FInt(10 + maxScoresSaved - i)]

InitStores ==
    { Store("missing", <<>>), Store("scalar", <<>>),
      Store("list", <<FInt(10), FInt(5), FInt(3)>>), Store("list", StoredLow) }

Init == \E st \in InitStores : InitWith(st)

\* the surge observation after an updateSurge call that fed dtMs
SurgeHist(h, sg, dtMs) ==
    [h EXCEPT !.total = h.fed + dtMs,
              !.fed = IF sg.active # surgeActive THEN 0 ELSE @ + dtMs,
              !.c0 = IF sg.active = surgeActive THEN @
                     ELSE IF sg.active THEN sg.durTimer ELSE sg.timer]

\* mutant: startGame keeps the asteroids and the surge of the run before
startGameKeepsField(interval) ==
    /\ state' = "playing"
    /\ ship' = NewShip
    /\ asteroids' = asteroids
    /\ elapsedTime' = F0
    /\ spawnTimer' = 0
    /\ surgeActive' = surgeActive
    /\ surgeTimer' = interval
    /\ surgeDurationTimer' = 0
    /\ speedMultiplier' = speedMultiplier
    /\ gameOverReady' = FALSE
    /\ gameOverTimer' = F0
    /\ hist' = [hist EXCEPT !.addCalls = 0, !.setItems = 0, !.writeFailed = FALSE,
                            !.ticks = 0, !.goTicks = 0, !.short = 0, !.runs = @ + 1,
                            !.fed = 0, !.total = 0, !.c0 = interval, !.keys = NoKeys,
                            !.gap = 0, !.batches = 0, !.spawned = 0, !.culled = 0]
    /\ UNCHANGED <<loopAlive, storage, bestScore, finalScore, topScores>>

\* startGame()
startGame(interval) ==
    /\ state' = "playing"
    /\ ship' = NewShip
    /\ asteroids' = <<>>
    /\ elapsedTime' = F0
    /\ spawnTimer' = 0
    /\ surgeActive' = FALSE
    /\ surgeTimer' = interval
    /\ surgeDurationTimer' = 0
    /\ speedMultiplier' = 10
    /\ gameOverReady' = FALSE
    /\ gameOverTimer' = F0
    /\ hist' = [hist EXCEPT !.addCalls = 0, !.setItems = 0, !.writeFailed = FALSE,
                            !.ticks = 0, !.goTicks = 0, !.short = 0, !.runs = @ + 1,
                            !.fed = 0, !.total = 0, !.c0 = interval, !.keys = NoKeys,
                            !.gap = 0, !.batches = 0, !.spawned = 0, !.culled = 0]
    /\ UNCHANGED <<loopAlive, storage, bestScore, finalScore, topScores>>

\* showTitle()
showTitle ==
    LET b == getBest(storage)
    IN  /\ state' = "title"
        /\ bestScore' = IF b.threw THEN bestScore ELSE b.v
        /\ hist' = [hist EXCEPT !.crashed = @ \/ b.threw]
        /\ UNCHANGED <<loopAlive, storage, finalScore, topScores, ship, asteroids,
                       elapsedTime, spawnTimer, surgeActive, surgeTimer,
                       surgeDurationTimer, speedMultiplier, gameOverReady, gameOverTimer>>

\* mutant: the first if without its state test starts a run from game over too
KeyDownAnyState(intervals) ==
    IF state \in {"title", "gameover"}
    THEN /\ hist.runs < MaxRuns
         /\ \E interval \in intervals : startGame(interval)
    ELSE UNCHANGED vars

\* mutant: the second if without gameOverReady
KeyDownNoLockout(intervals) ==
    IF state = "title"
    THEN /\ hist.runs < MaxRuns
         /\ \E interval \in intervals : startGame(interval)
    ELSE IF state = "gameover"
         THEN showTitle
         ELSE UNCHANGED vars

\* mutant: the two ifs in the other order, so that a restart falls through
\* into the start of a run
KeyDownRestartFirst(intervals) ==
    IF state = "gameover" /\ gameOverReady
    THEN IF hist.runs < MaxRuns
         THEN \E interval \in intervals : startGame(interval)
         ELSE showTitle
    ELSE IF state = "title"
         THEN /\ hist.runs < MaxRuns
              /\ \E interval \in intervals : startGame(interval)
         ELSE UNCHANGED vars

\* the keydown handler on Enter or Space: both ifs, in order; intervals are the
\* draws startGame may make
KeyDown(intervals) ==
    IF state = "title"
    THEN /\ hist.runs < MaxRuns
         /\ \E interval \in intervals : startGame(interval)
    ELSE IF state = "gameover" /\ gameOverReady
         THEN showTitle
         ELSE UNCHANGED vars

\* mutant: a spawn resets the timer to zero
SpawnTimerReset(timer1) ==
    IF timer1 >= asteroidSpawnInterval THEN 0 ELSE timer1

\* the spawn timer after the spawn step: a spawn subtracts the interval
SpawnTimerAfter(timer1) ==
    IF timer1 >= asteroidSpawnInterval THEN timer1 - asteroidSpawnInterval ELSE timer1

\* mutant: the asteroids move with the multiplier of before the surge update
PlayingAsteroidsOldMult(dtMs, batch, mult) ==
    LET spawns == spawnTimer + dtMs >= asteroidSpawnInterval
        as1    == IF spawns
                  THEN asteroids \o [i \in 1..Len(batch) |-> NewAsteroid(batch[i])]
                  ELSE asteroids
    IN  StepAsteroids(as1, Len(as1), dtMs, speedMultiplier)

\* the asteroid collection after the spawn step and the update/cull loop of
\* updatePlaying; batch holds the constructor draws of a spawn batch
PlayingAsteroids(dtMs, batch, mult) ==
    LET spawns == spawnTimer + dtMs >= asteroidSpawnInterval
        as1    == IF spawns
                  THEN asteroids \o [i \in 1..Len(batch) |-> NewAsteroid(batch[i])]
                  ELSE asteroids
    IN  StepAsteroids(as1, Len(as1), dtMs, mult)

\* the collision loop of updatePlaying: triggerGameOver at the first hit, then return
PlayingCollisions(elapsed1, ship1, as2, writeOk) ==
    LET g0 == [state |-> state, ready |-> gameOverReady, timer |-> gameOverTimer,
               storage |-> storage, final |-> finalScore, best |-> bestScore,
               top |-> topScores, crashed |-> FALSE, addCalls |-> hist.addCalls,
               setItems |-> hist.setItems, writeFailed |-> hist.writeFailed,
               score |-> hist.score]
    IN  TriggerTimes(g0, CollisionCalls(ship1, as2), elapsed1, writeOk)

\* updatePlaying(dt) with the tick's inputs: the held keys, the constructor draws
\* of a spawn batch, the surge draws, and whether localStorage.setItem succeeds
updatePlaying(dt, keys, batch, interval, duration) ==
    \E elapsed1 \in {FAdd(elapsedTime, dt.s)} :
    \E ship1 \in {ShipUpdate(ship, dt.ms, keys)} :
    \E sg \in {updateSurge(surgeActive, surgeTimer, surgeDurationTimer,
                           speedMultiplier, dt.ms, interval, duration)} :
    \E timer1 \in {spawnTimer + dt.ms} :
    \E as2 \in {PlayingAsteroids(dt.ms, batch, sg.mult)} :
    \E writeOk \in (IF CollisionCalls(ship1, as2) > 0 THEN BOOLEAN ELSE {TRUE}) :
    \E g \in {PlayingCollisions(elapsed1, ship1, as2, writeOk)} :
        /\ elapsedTime' = elapsed1
        /\ ship' = ship1
        /\ surgeActive' = sg.active
        /\ surgeTimer' = sg.timer
        /\ surgeDurationTimer' = sg.durTimer
        /\ speedMultiplier' = sg.mult
        /\ spawnTimer' = SpawnTimerAfter(timer1)
        /\ asteroids' = as2
        /\ state' = g.state
        /\ gameOverReady' = g.ready
        /\ gameOverTimer' = g.timer
        /\ storage' = g.storage
        /\ finalScore' = g.final
        /\ bestScore' = g.best
        /\ topScores' = g.top
        /\ loopAlive' = ~g.crashed
        /\ hist' = [SurgeHist(hist, sg, dt.ms) EXCEPT
                        !.crashed = @ \/ g.crashed, !.addCalls = g.addCalls,
                        !.setItems = g.setItems, !.writeFailed = g.writeFailed,
                        !.score = g.score, !.ticks = @ + 1, !.keys = keys,
                        !.gap = dt.gap,
                        !.batches = IF timer1 >= asteroidSpawnInterval THEN @ + 1 ELSE @,
                        !.spawned = IF timer1 >= asteroidSpawnInterval
                                    THEN @ + Len(batch) ELSE @,
                        !.culled = Len(asteroids) - Len(as2)
                                     + (IF timer1 >= asteroidSpawnInterval
                                        THEN Len(batch) ELSE 0),
                        !.short = IF dt.ms < 50 THEN @ + 1 ELSE @]

\* mutant: the asteroids keep drifting at the speed multiplier of the run
updateGameOverSurging(dt) ==
    \E timer1 \in {FAdd(gameOverTimer, dt.s)} :
    \E as1 \in {StepAsteroids(asteroids, Len(asteroids), dt.ms, speedMultiplier)} :
        /\ asteroids' = as1
        /\ gameOverTimer' = timer1
        /\ gameOverReady' = IF FGt(timer1, F08) THEN TRUE ELSE gameOverReady
        /\ hist' = [hist EXCEPT !.goTicks = @ + 1, !.gap = dt.gap,
                                !.culled = Len(asteroids) - Len(as1),
                                !.short = IF dt.ms < 50 THEN @ + 1 ELSE @]
        /\ UNCHANGED <<state, loopAlive, storage, bestScore, finalScore, topScores, ship,
                       elapsedTime, spawnTimer, surgeActive, surgeTimer,
                       surgeDurationTimer, speedMultiplier>>

\* updateGameOver(dt); particles and screen shake are presentation only
updateGameOver(dt) ==
    \E timer1 \in {FAdd(gameOverTimer, dt.s)} :
    \E as1 \in {StepAsteroids(asteroids, Len(asteroids), dt.ms, 10)} :
        /\ asteroids' = as1
        /\ gameOverTimer' = timer1
        /\ gameOverReady' = IF FGt(timer1, F08) THEN TRUE ELSE gameOverReady
        /\ hist' = [hist EXCEPT !.goTicks = @ + 1, !.gap = dt.gap,
                                !.culled = Len(asteroids) - Len(as1),
                                !.short = IF dt.ms < 50 THEN @ + 1 ELSE @]
        /\ UNCHANGED <<state, loopAlive, storage, bestScore, finalScore, topScores, ship,
                       elapsedTime, spawnTimer, surgeActive, surgeTimer,
                       surgeDurationTimer, speedMultiplier>>

\* the frames the exploration takes: a bounded number per run, few of them short
\* (while playing only if shortFirst, and then before the other frames)
FrameAllowed(dt, maxTicks, shortFirst) ==
    /\ dt.ms < 50 => /\ hist.short < MaxShortFrames
                     /\ state = "playing" => shortFirst /\ hist.ticks = hist.short
    /\ state = "playing" => hist.ticks < maxTicks
    /\ state = "gameover" => hist.goTicks < MaxGameOverTicks

\* loop(timestamp): dt, then update(dt) by state; render() reads only.
\* gaps, keySet and batches are the inputs the frames draw from
Frame(gaps, keySet, batches, maxTicks, shortFirst) ==
    /\ loopAlive
    /\ \E gap \in gaps :
        LET dt == Dt(gap)
        IN  /\ FrameAllowed(dt, maxTicks, shortFirst)
            /\ \/ /\ state = "title"
                  /\ UNCHANGED vars
               \/ /\ state = "playing"
                  /\ \E keys \in keySet :
                     \E batch \in (IF spawnTimer + dt.ms >= asteroidSpawnInterval
                                   THEN batches ELSE {<<>>}) :
                     \E interval \in (IF DrawsInterval(dt.ms) THEN SurgeIntervalDraws ELSE {0}) :
                     \E duration \in (IF DrawsDuration(dt.ms) THEN SurgeDurationDraws ELSE {0}) :
                        updatePlaying(dt, keys, batch, interval, duration)
               \/ /\ state = "gameover"
                  /\ updateGameOver(dt)

KeyDownStart == KeyDown(RunSurgeDraws)

Loop == Frame(RunGaps, RunKeys, Batches, MaxTicks, FALSE)

Next == KeyDownStart \/ Loop

Spec == Init /\ [][Next]_vars

-----------------------------------------------------------------------------
(* A long run: the whole game with no key held.  The asteroids are         *)
(* DrawCorner ones, which miss the ship, so that the run lasts through       *)
(* surges; the batches spawned in a window that ends when the earliest surge *)
(* can start may hold DrawAcross ones, which end the run.  Only the first    *)
(* run is long.                                                              *)

MaxLongTicks == 260

LongInit == InitWith(Store("missing", <<>>))

LongKeyDown == KeyDown(SurgeIntervalDraws)

\* the ticks (counted from 1) whose batch may hold DrawAcross asteroids
AcrossWindow ==
    { t \in 1..(surgeIntervalMin \div 50) : t > surgeIntervalMin \div 50 - asteroidBatchSize * 4 }

LongLoop ==
    Frame(GapSet, {NoKeys},
          IF hist.ticks + 1 \in AcrossWindow THEN Batches ELSE {Batch(0)},
          IF hist.runs > 1 THEN MaxTicks ELSE MaxLongTicks, TRUE)

LongNext == LongKeyDown \/ LongLoop

LongSpec == LongInit /\ [][LongNext]_vars

-----------------------------------------------------------------------------
(* The state right after startGame(), for the specifications that drive one  *)
(* method of a run with arbitrary arguments.                                 *)

RunStarted(interval) ==
    /\ storage = Store("missing", <<>>)
    /\ state = "playing"
    /\ bestScore = F0
    /\ loopAlive = TRUE
    /\ hist = [NoHist EXCEPT !.runs = 1, !.c0 = interval]
    /\ finalScore = F0
    /\ topScores = <<>>
    /\ ship = NewShip
    /\ asteroids = <<>>
    /\ elapsedTime = F0
    /\ spawnTimer = 0
    /\ surgeActive = FALSE
    /\ surgeTimer = interval
    /\ surgeDurationTimer = 0
    /\ speedMultiplier = 10
    /\ gameOverReady = FALSE
    /\ gameOverTimer = F0

(* Ship.update(dt, keys) for any dt >= 0 (ms) and any held directions *)

MaxShipSteps == 3

ShipDts == {0, 16, 50, 2000}

ShipInit == RunStarted(surgeIntervalMin)

ShipStep ==
    /\ hist.ticks < MaxShipSteps
    /\ \E dtMs \in ShipDts : \E keys \in AllKeys :
        /\ ship' = ShipUpdate(ship, dtMs, keys)
        /\ hist' = [hist EXCEPT !.ticks = @ + 1, !.keys = keys]
    /\ UNCHANGED <<state, loopAlive, storage, bestScore, finalScore, topScores,
                   asteroids, elapsedTime, spawnTimer, surgeActive, surgeTimer,
                   surgeDurationTimer, speedMultiplier, gameOverReady, gameOverTimer>>

ShipSpec == ShipInit /\ [][ShipStep]_vars

(* updateSurge(dt) for any dt (ms): a frame, a long step, and a step longer  *)
(* than any countdown plus the whole state after it                          *)

SurgeDts == {50, surgeDurationMax, 2 * surgeIntervalMax}

SurgeInit == \E interval \in SurgeIntervalDraws : RunStarted(interval)

SurgeStep ==
    /\ \E dtMs \in SurgeDts :
       \E interval \in (IF DrawsInterval(dtMs) THEN SurgeIntervalDraws ELSE {0}) :
       \E duration \in (IF DrawsDuration(dtMs) THEN SurgeDurationDraws ELSE {0}) :
       \E sg \in {updateSurge(surgeActive, surgeTimer, surgeDurationTimer,
                              speedMultiplier, dtMs, interval, duration)} :
        /\ surgeActive' = sg.active
        /\ surgeTimer' = sg.timer
        /\ surgeDurationTimer' = sg.durTimer
        /\ speedMultiplier' = sg.mult
        /\ hist' = SurgeHist(hist, sg, dtMs)
    /\ UNCHANGED <<state, loopAlive, storage, bestScore, finalScore, topScores, ship,
                   asteroids, elapsedTime, spawnTimer, gameOverReady, gameOverTimer>>

SurgeSpec == SurgeInit /\ [][SurgeStep]_vars

(* A run with CONFIG.asteroidBatchSize = 0: the spawn loop makes no          *)
(* constructor call, so every batch is empty.  The held directions change    *)
(* during the first ticks of the run and are kept from then on.              *)

MaxQuietTicks == 56

MaxKeyChanges == 3

HoldKeys ==
    { Keys(FALSE, TRUE, FALSE, FALSE), Keys(FALSE, TRUE, TRUE, FALSE),
      Keys(TRUE, FALSE, FALSE, TRUE), Keys(TRUE, TRUE, FALSE, TRUE) }

QuietLoop ==
    Frame(GapSet, IF hist.ticks < MaxKeyChanges THEN HoldKeys ELSE {hist.keys},
          {<<>>}, MaxQuietTicks, FALSE)

QuietNext == KeyDownStart \/ QuietLoop

QuietSpec == LongInit /\ [][QuietNext]_vars

(* The collision test at its boundary: a run whose asteroids are about to    *)
(* arrive at chosen offsets from the ship.  Each has size 12 and flies left  *)
(* at 240 pixel/second, 12 pixel per 50 ms tick; with the ship that makes    *)
(* R = 16 and 0.8 R = 12.8 pixel.                                            *)

MaxHitTicks == 3

\* an asteroid that one tick at multiplier 1 takes to (offX, offY) from the
\* field centre, in 1/1000 pixel
Approaching(offX, offY) ==
    [x |-> NewShip.x + offX + 12 * Px, y |-> NewShip.y + offY, size |-> 12,
     baseVx |-> 0 - 240, baseVy |-> 0]

\* offsets at distance 0.8 R exactly, 0.79 R, 0, just inside, just outside, far
HitOffsets ==
    { <<12800, 0>>, <<7680, 10240>>, <<12640, 0>>, <<0, 0>>, <<7680, 10239>>,
      <<12801, 0>>, <<0, 0 - 12800>>, <<90 * Px, 0>> }

HitFields ==
    { <<Approaching(o[1], o[2])>> : o \in HitOffsets }
      \cup { <<Approaching(o[1], o[2]), Approaching(q[1], q[2])>> :
               o \in HitOffsets, q \in HitOffsets }

HitInit ==
    /\ storage = Store("missing", <<>>)
    /\ state = "playing"
    /\ bestScore = F0
    /\ loopAlive = TRUE
    /\ hist = [NoHist EXCEPT !.runs = 1, !.c0 = surgeIntervalMin]
    /\ finalScore = F0
    /\ topScores = <<>>
    /\ ship = NewShip
    /\ asteroids \in HitFields
    /\ elapsedTime = F0
    /\ spawnTimer = 0
    /\ surgeActive = FALSE
    /\ surgeTimer = surgeIntervalMin
    /\ surgeDurationTimer = 0
    /\ speedMultiplier = 10
    /\ gameOverReady = FALSE
    /\ gameOverTimer = F0

HitLoop == Frame(RunGaps, RunKeys, Batches, MaxHitTicks, FALSE)

HitSpec == HitInit /\ [][HitLoop]_vars

-----------------------------------------------------------------------------
(* ScoreManager on its own: any stored value, any sequence of calls *)

MaxStored == 2

MaxAdds == 2

ScoreVals == {FInt(3), FInt(5), FInt(8), FInt(10)}

RECURSIVE SeqsUpTo(_, _)
SeqsUpTo(S, n) ==
    IF n = 0 THEN {<<>>}
    ELSE LET shorter == SeqsUpTo(S, n - 1)
         IN  shorter \cup {Append(q, x) : q \in shorter, x \in S}

ScoreStores ==
    {Store("list", l) : l \in SeqsUpTo(ScoreVals, MaxStored)}
    \cup {Store("list", <<FInt(10), FInt(5), FInt(3)>>), Store("list", StoredLow),
          Store("list", Tail(StoredLow)), Store("list", StoredHigh)}
    \cup {Store(k, <<>>) : k \in StoreKinds \ {"list"}}

ScoreInit ==
    \E st \in ScoreStores :
        /\ storage = st
        /\ state = "title"
        /\ bestScore = F0
        /\ loopAlive = FALSE
        /\ hist = NoHist
        /\ finalScore = F0
        /\ topScores = <<>>
        /\ ship = NewShip
        /\ asteroids = <<>>
        /\ elapsedTime = F0
        /\ spawnTimer = 0
        /\ surgeActive = FALSE
        /\ surgeTimer = 0
        /\ surgeDurationTimer = 0
        /\ speedMultiplier = 10
        /\ gameOverReady = FALSE
        /\ gameOverTimer = F0

ScoreRest == <<state, loopAlive, finalScore, ship, asteroids, elapsedTime, spawnTimer,
               surgeActive, surgeTimer, surgeDurationTimer, speedMultiplier,
               gameOverReady, gameOverTimer>>

\* ScoreManager.addScore(score)
AddScoreCall ==
    /\ hist.addCalls < MaxAdds
    /\ \E score \in ScoreVals : \E writeOk \in BOOLEAN :
       \E r \in {addScore(storage, score, writeOk)} :
        /\ storage' = r.st
        /\ hist' = [hist EXCEPT !.addCalls = @ + 1, !.setItems = r.tries, !.score = score,
                                !.crashed = r.threw, !.writeFailed = ~r.threw /\ ~writeOk]
    /\ UNCHANGED <<bestScore, topScores>>
    /\ UNCHANGED ScoreRest

\* this.topScores = ScoreManager.getScores()
GetScoresCall ==
    /\ \E r \in {getScores(storage)} :
        /\ topScores' = IF r.threw THEN topScores ELSE r.v
        /\ hist' = [hist EXCEPT !.crashed = r.threw]
    /\ UNCHANGED <<storage, bestScore>>
    /\ UNCHANGED ScoreRest

\* this.bestScore = ScoreManager.getBest()
GetBestCall ==
    /\ \E r \in {getBest(storage)} :
        /\ bestScore' = IF r.threw THEN bestScore ELSE r.v
        /\ hist' = [hist EXCEPT !.crashed = r.threw]
    /\ UNCHANGED <<storage, topScores>>
    /\ UNCHANGED ScoreRest

ScoreNext == AddScoreCall \/ GetScoresCall \/ GetBestCall

ScoreSpec == ScoreInit /\ [][ScoreNext]_vars

-----------------------------------------------------------------------------
(* Properties *)

\* some asteroid of as is within the hitbox of ship s
Hit(s, as) == \E i \in 1..Len(as) : Collides(s, as[i])

\* C1: the lifecycle state changes only along Title -> Playing (a start key in
\* Title), Playing -> GameOver (a frame whose collision check finds a hit) and
\* GameOver -> Title (a key once the lockout has elapsed); from Title nothing but
\* a start key changes anything, and from Playing nothing but a frame does.
C1_LifecycleEdges ==
    [][ /\ state' # state =>
            \/ state = "title" /\ state' = "playing" /\ KeyDownStart
            \/ state = "playing" /\ state' = "gameover" /\ Loop /\ Hit(ship', asteroids')
            \/ state = "gameover" /\ gameOverReady /\ state' = "title" /\ KeyDownStart
        /\ state = "title" => KeyDownStart /\ state' = "playing"
        /\ state = "playing" => Loop /\ (state' = "gameover" <=> Hit(ship', asteroids'))
        /\ state = "gameover" /\ gameOverReady /\ KeyDownStart => state' = "title"
      ]_vars

\* a second run's game over left for the title: every edge has been taken
C1_Witness == state = "title" /\ hist.runs = MaxRuns /\ hist.addCalls = 1

\* C2 as claimed: the lockout never elapses before the 17th GameOver frame
C2_NotBefore17 == (state = "gameover" /\ gameOverReady) => hist.goTicks >= 17

\* C2 amended: a GameOver state whose lockout has not elapsed is left by no step;
\* GameOver is entered with the lockout not elapsed and its timer 0; the lockout
\* is elapsed only when the double gameOverTimer exceeds 0.8, which takes 16 frames
\* of 0.05 s (their double sum is above 0.8) and never fewer.
C2_Lockout ==
    /\ [](state = "gameover" =>
            /\ hist.goTicks = 0 => ~gameOverReady /\ gameOverTimer = F0
            /\ gameOverReady => FGt(gameOverTimer, F08) /\ hist.goTicks >= 16)
    /\ [][ /\ state = "gameover" /\ ~gameOverReady => state' = "gameover"
           /\ state # "gameover" /\ state' = "gameover" =>
                ~gameOverReady' /\ gameOverTimer' = F0 /\ hist.goTicks' = 0
         ]_vars

\* the lockout elapsed on the 16th GameOver frame
C2_Witness == state = "gameover" /\ gameOverReady /\ hist.goTicks = 16

\* the double sum of n frames of 0.05 s
RECURSIVE RunTime(_)
RunTime(n) == IF n = 0 THEN F0 ELSE FAdd(RunTime(n - 1), F005)

\* C3: a run commits its score exactly once, with the elapsed time of all its
\* frames including the collision frame, which is also finalScore; nothing is
\* committed while playing, and GameOver changes neither the elapsed time, the
\* final score nor the store.
C3_CommitOnce ==
    /\ [](/\ state = "playing" => hist.addCalls = 0 /\ hist.setItems = 0
          /\ state = "gameover" =>
                /\ hist.addCalls = 1
                /\ hist.score = elapsedTime
                /\ finalScore = elapsedTime
                /\ elapsedTime = RunTime(hist.ticks))
    /\ [][ state = "gameover" =>
                /\ elapsedTime' = elapsedTime
                /\ finalScore' = finalScore
                /\ storage' = storage
                /\ hist.addCalls' = hist.addCalls
         ]_vars

\* the collision frame left two asteroids inside the hitbox
C3_Witness ==
    /\ state = "gameover"
    /\ hist.goTicks = 0
    /\ \E i, j \in 1..Len(asteroids) :
          i # j /\ Collides(ship, asteroids[i]) /\ Collides(ship, asteroids[j])

\* l is in descending order
IsDesc(l) == \A i \in 1..(Len(l) - 1) : FGe(l[i], l[i + 1])

\* how often v occurs in l
Count(l, v) == Cardinality({i \in 1..Len(l) : l[i] = v})

\* r holds the max highest values of l (all of l if it has no more), descending
IsTopOf(r, l, max) ==
    /\ IsDesc(r)
    /\ Len(r) = Min(max, Len(l))
    /\ \A i \in 1..Len(r) : Count(r, r[i]) <= Count(l, r[i])
    /\ \A i \in 1..Len(l) :
          Count(r, l[i]) < Count(l, l[i]) => \A j \in 1..Len(r) : FGe(r[j], l[i])

\* C4: an addScore(s) whose write succeeds persists the maxScoresSaved highest
\* values of the stored list plus s, descending, ties kept; the store only ever
\* changes to such a list; [10,5,3] plus 8 gives [10,8,5,3] and, with a maximum
\* of 2, [10,5] plus 8 gives [10,8].
C4_AddScoreTop ==
    /\ [][ /\ (hist.addCalls' = hist.addCalls + 1 /\ ~hist.crashed' /\ ~hist.writeFailed')
              => /\ storage'.kind = "list"
                 /\ IsTopOf(storage'.v, Append(Load(storage).v, hist.score'), maxScoresSaved)
           /\ storage' # storage
              => /\ storage'.kind = "list"
                 /\ IsDesc(storage'.v)
                 /\ Len(storage'.v) <= maxScoresSaved
         ]_vars
    /\ addScoreMax(Store("list", <<FInt(10), FInt(5), FInt(3)>>), FInt(8), TRUE, 10).st
         = Store("list", <<FInt(10), FInt(8), FInt(5), FInt(3)>>)
    /\ addScoreMax(Store("list", <<FInt(10), FInt(5)>>), FInt(8), TRUE, 2).st
         = Store("list", <<FInt(10), FInt(8)>>)

\* a score entered a full list and pushed the lowest entry out
C4_Witness ==
    /\ hist.addCalls = 1 /\ ~hist.crashed /\ ~hist.writeFailed
    /\ storage.kind = "list"
    /\ Len(storage.v) = maxScoresSaved
    /\ Count(storage.v, hist.score) = 1
    /\ Count(storage.v, F005) = 4

\* C5 as claimed: no call of getScores, getBest or addScore raises, whatever the
\* store holds
C5_ReadsNeverRaise == ~hist.crashed

\* C6: a setItem that fails on the collision frame leaves the store as it was,
\* raises nothing and is not repeated; the game is in GameOver with the final
\* score set, the lockout started (and running: the frame loop goes on).
C6_WriteFailureAbsorbed ==
    /\ []((state = "gameover" /\ hist.writeFailed) =>
            /\ ~hist.crashed
            /\ loopAlive
            /\ hist.setItems = 1
            /\ finalScore = elapsedTime)
    /\ [][ (state = "playing" /\ hist.writeFailed') =>
            /\ state' = "gameover"
            /\ storage' = storage
            /\ ~gameOverReady'
            /\ gameOverTimer' = F0
         ]_vars

\* the lockout ran out after a failed write
C6_Witness == state = "gameover" /\ hist.writeFailed /\ gameOverReady

\* C7: after every Ship.update the ship lies within the field, its size away
\* from each edge
C7_ShipInBounds ==
    /\ shipSize * Px <= ship.x /\ ship.x <= (canvasWidth - shipSize) * Px
    /\ shipSize * Px <= ship.y /\ ship.y <= (canvasHeight - shipSize) * Px

\* updates took the ship into the top right corner
C7_Witness ==
    /\ hist.ticks >= 1
    /\ ship.x = (canvasWidth - shipSize) * Px
    /\ ship.y = shipSize * Px

C9_OneTransition ==
    [][ LET dtMs == hist.total' - hist.fed
        IN  /\ (~surgeActive /\ ~surgeActive') =>
                  /\ surgeTimer' = surgeTimer - dtMs
                  /\ surgeDurationTimer' = surgeDurationTimer
            /\ (~surgeActive /\ surgeActive') =>
                  /\ surgeTimer' = surgeTimer - dtMs
                  /\ surgeDurationTimer' \in SurgeDurationDraws
            /\ (surgeActive /\ surgeActive') =>
                  /\ surgeDurationTimer' = surgeDurationTimer - dtMs
                  /\ surgeTimer' = surgeTimer
            /\ (surgeActive /\ ~surgeActive') =>
                  /\ surgeDurationTimer' = surgeDurationTimer - dtMs
                  /\ surgeTimer' \in SurgeIntervalDraws
      ]_vars

\* a call overshot the Idle countdown by more than any surge lasts, and the
\* surge is on
C9_Witness == surgeActive /\ surgeTimer + surgeDurationMax < 0

\* C10: in a run the speed multiplier is 1 exactly when no surge is active and
\* the surge multiplier exactly when one is
C10_MultiplierIffActive ==
    hist.runs >= 1 =>
        /\ speedMultiplier = 10 <=> ~surgeActive
        /\ speedMultiplier = surgeMultiplier <=> surgeActive

\* a run in which a surge has come and gone
C10_Witness ==
    /\ state = "playing"
    /\ ~surgeActive
    /\ hist.fed > 0
    /\ hist.fed + surgeDurationMin + surgeIntervalMin <= 50 * hist.ticks

\* C11 as claimed: in a run no surge timer is ever below zero
C11_NoTimerBelowZero == hist.runs >= 1 => surgeTimer >= 0 /\ surgeDurationTimer >= 0

\* C11: at every tick boundary of a run the countdown of the current surge
\* state is greater than 0: the time until the next surge when Idle, the time
\* until the surge ends when Active.  The timer of the other state is stale:
\* it keeps the value it fired with, which is 0 or less.
C11_CurrentCountdownPositive ==
    hist.runs >= 1 =>
        /\ ~surgeActive => surgeTimer > 0 /\ surgeDurationTimer <= 0
        /\ surgeActive => surgeDurationTimer > 0 /\ surgeTimer <= 0

\* a surge is on and the interval timer was left below zero
C11_Witness ==
    state = "playing" /\ surgeActive /\ surgeTimer < 0 /\ surgeDurationTimer > 0

\* the distance between the centres is less than 0.8 * (ship size + asteroid
\* size): d^2 < 0.64 R^2, in 1/1000 pixel
Within(s, a) ==
    LET R  == shipSize + a.size
        dx == Abs(s.x - a.x)
        dy == Abs(s.y - a.y)
    IN  dx < R * Px /\ dy < R * Px /\ dx * dx + dy * dy < R * R * 16 * 40000

\* the distance between the centres is 0.8 * (ship size + asteroid size) exactly
AtBoundary(s, a) ==
    LET R  == shipSize + a.size
        dx == Abs(s.x - a.x)
        dy == Abs(s.y - a.y)
    IN  dx < R * Px /\ dy < R * Px /\ dx * dx + dy * dy = R * R * 16 * 40000

\* C12: a Playing tick ends the run exactly when, after its motion step, some
\* remaining asteroid is nearer to the ship than 0.8 R; at 0.8 R exactly the run
\* goes on, at 0.79 R and at distance 0 it ends.
C12_StrictBoundary ==
    /\ [][ state = "playing" =>
             (state' = "gameover" <=>
                \E i \in 1..Len(asteroids') : Within(ship', asteroids'[i])) ]_vars
    /\ ~Collides(NewShip, [Approaching(12800, 0) EXCEPT !.x = NewShip.x + 12800])
    /\ Collides(NewShip, [Approaching(12640, 0) EXCEPT !.x = NewShip.x + 12640])
    /\ Collides(NewShip, [Approaching(0, 0) EXCEPT !.x = NewShip.x])

\* after a tick an asteroid is at 0.8 R exactly and the run goes on
C12_Witness ==
    /\ state = "playing"
    /\ hist.ticks = 1
    /\ \E i \in 1..Len(asteroids) : AtBoundary(ship, asteroids[i])

\* the ship is at the clamp boundary of every direction held without its opposite
AtHeldEdges(s, k) ==
    /\ (k.right /\ ~k.left) => s.x = (canvasWidth - shipSize) * Px
    /\ (k.left /\ ~k.right) => s.x = shipSize * Px
    /\ (k.down /\ ~k.up) => s.y = (canvasHeight - shipSize) * Px
    /\ (k.up /\ ~k.down) => s.y = shipSize * Px

\* the 50 ms ticks a diagonal crossing of the whole field takes at most
CrossTicks == ((canvasWidth - 2 * shipSize) * Px) \div ShipMove(1, 1, 50) + 1

\* C13: with a batch size of 0 a run has no asteroid and never leaves Playing
\* for GameOver; a tick with a direction held takes the ship a full step
\* towards that edge or exactly onto the clamp boundary, where it stays while
\* the direction is held, so after a hold longer than the way takes the ship is
\* at the boundary.
C13_QuietRun ==
    /\ [](/\ state # "gameover"
          /\ asteroids = <<>>
          /\ hist.addCalls = 0
          /\ (state = "playing" /\ hist.ticks >= MaxKeyChanges + CrossTicks)
                => AtHeldEdges(ship, hist.keys))
    /\ [][ (state = "playing" /\ hist.ticks' = hist.ticks + 1) =>
             LET k == hist.keys'
                 d == IF k.left # k.right /\ k.up # k.down
                      THEN ShipMove(1, 1, 50) ELSE shipSpeed * 50
             IN  /\ (k.right /\ ~k.left) =>
                        ship'.x = Min(ship.x + d, (canvasWidth - shipSize) * Px)
                 /\ (k.left /\ ~k.right) => ship'.x = Max(ship.x - d, shipSize * Px)
                 /\ (k.down /\ ~k.up) =>
                        ship'.y = Min(ship.y + d, (canvasHeight - shipSize) * Px)
                 /\ (k.up /\ ~k.down) => ship'.y = Max(ship.y - d, shipSize * Px)
                 /\ AtHeldEdges(ship, k) => AtHeldEdges(ship', k)
         ]_vars

\* a long hold has taken the ship into the top right corner, still playing
C13_Witness ==
    /\ state = "playing"
    /\ hist.ticks = MaxKeyChanges + CrossTicks
    /\ hist.keys = Keys(FALSE, TRUE, TRUE, FALSE)
    /\ ship = [x |-> (canvasWidth - shipSize) * Px, y |-> shipSize * Px]

\* the directions held, as the signs Ship.update starts from
NetX(k) == (IF k.right THEN 1 ELSE 0) - (IF k.left THEN 1 ELSE 0)

NetY(k) == (IF k.down THEN 1 ELSE 0) - (IF k.up THEN 1 ELSE 0)

\* e is q / sqrt(2) to the precision of the representation, 1 in 10000:
\* 2 e^2 = q^2, compared after scaling q down to at most Unit
IsDiagOf(e, q) ==
    LET s  == q \div Unit + 1
        e1 == e \div s
        q1 == q \div s
    IN  /\ 0 <= e /\ e <= q
        /\ 2 * e1 * e1 <= (q1 + 1) * (q1 + 1)
        /\ q1 * q1 < 2 * (e1 + 2) * (e1 + 2)

C15_DtCapped ==
    [][ /\ (state = "playing" /\ hist.ticks' = hist.ticks + 1) =>
              /\ ~FGt(elapsedTime', FAdd(elapsedTime, F005))
              /\ hist.total' - hist.fed <= 50
              /\ spawnTimer' <= spawnTimer + 50
              /\ hist.gap' >= 50 => /\ elapsedTime' = FAdd(elapsedTime, F005)
                                    /\ hist.total' - hist.fed = 50
        /\ (state = "gameover" /\ hist.goTicks' = hist.goTicks + 1) =>
              /\ ~FGt(gameOverTimer', FAdd(gameOverTimer, F005))
              /\ hist.gap' >= 50 => gameOverTimer' = FAdd(gameOverTimer, F005)
      ]_vars

\* the first frame of a run came a second after the one before and counted 0.05 s
C15_Witness ==
    state = "playing" /\ hist.ticks = 1 /\ hist.gap = 1000 /\ elapsedTime = F005

\* b is a after one update of dtMs ms at multiplier m (in tenths): size and base
\* velocity as before, displaced by base velocity * m * dt
IsMoveOf(b, a, dtMs, m) ==
    /\ b.size = a.size
    /\ b.baseVx = a.baseVx
    /\ b.baseVy = a.baseVy
    /\ 10 * (b.x - a.x) = a.baseVx * m * dtMs
    /\ 10 * (b.y - a.y) = a.baseVy * m * dtMs

\* the asteroids a constructor call can make
FreshAsteroids == {NewAsteroid(DrawAcross), NewAsteroid(DrawCorner)}

\* C16: on every Playing tick each asteroid kept is an asteroid of before the
\* tick, or one constructed on this tick, with its base velocity unchanged and
\* displaced by base velocity * m * dt, m being the multiplier after this tick's
\* surge update: the tick a surge starts or ends already moves with the new
\* multiplier.
C16_FreshVelocity ==
    [][ (state = "playing" /\ hist.ticks' = hist.ticks + 1) =>
          \A j \in 1..Len(asteroids') :
             \/ \E i \in 1..Len(asteroids) :
                   IsMoveOf(asteroids'[j], asteroids[i],
                            hist.total' - hist.fed, speedMultiplier')
             \/ /\ hist.batches' = hist.batches + 1
                /\ \E a \in FreshAsteroids :
                      IsMoveOf(asteroids'[j], a, hist.total' - hist.fed, speedMultiplier')
      ]_vars

\* a surge started on a spawn tick: older asteroids are in flight and the
\* newest has made its first move at the surge multiplier
C16_Witness ==
    /\ state = "playing"
    /\ surgeActive
    /\ hist.fed = 0
    /\ Len(asteroids) > asteroidBatchSize
    /\ IsMoveOf(asteroids[Len(asteroids)], NewAsteroid(DrawCorner), 50, surgeMultiplier)

\* the ms handed to updatePlaying so far in the run: 50 per tick, 16 for a short one
PlayedMs == 50 * hist.ticks - (50 - 16) * hist.short

\* C17: while a run is in Playing, after ticks totalling T ms the batches
\* created number T div asteroidSpawnInterval, the constructor calls
\* asteroidBatchSize per batch, and the spawn timer is T mod asteroidSpawnInterval;
\* a tick creates at most one batch, and the asteroids that make their first
\* move on it number asteroidBatchSize on a spawn tick and 0 on any other.
C17_SpawnCadence ==
    /\ [](state = "playing" =>
            /\ hist.batches = PlayedMs \div asteroidSpawnInterval
            /\ hist.spawned = asteroidBatchSize * hist.batches
            /\ spawnTimer = PlayedMs % asteroidSpawnInterval
            /\ 0 <= spawnTimer /\ spawnTimer < asteroidSpawnInterval)
    /\ [][ (state = "playing" /\ hist.ticks' = hist.ticks + 1) =>
            /\ hist.batches' \in {hist.batches, hist.batches + 1}
            /\ Cardinality({ j \in 1..Len(asteroids') :
                              \E a \in FreshAsteroids :
                                 IsMoveOf(asteroids'[j], a, hist.total' - hist.fed,
                                          speedMultiplier') })
                 = (hist.batches' - hist.batches) * asteroidBatchSize
         ]_vars

\* the run began with a 16 ms tick and the second batch left those 16 ms on the timer
C17_Witness ==
    state = "playing" /\ hist.short = 1 /\ hist.batches = 2 /\ spawnTimer = 16

\* a lies within the field widened by size + 60 on every side
OnField(a) ==
    /\ 0 - (a.size + 60) * Px <= a.x /\ a.x <= (canvasWidth + a.size + 60) * Px
    /\ 0 - (a.size + 60) * Px <= a.y /\ a.y <= (canvasHeight + a.size + 60) * Px

\* a advanced by one update of dtMs ms at multiplier m (in tenths)
Advanced(a, dtMs, m) ==
    [a EXCEPT !.x = @ + (a.baseVx * m * dtMs) \div 10,
              !.y = @ + (a.baseVy * m * dtMs) \div 10]

\* every entry of as advanced once, those then off the widened field dropped,
\* the others kept in order
AdvancedAndCulled(as, dtMs, m) ==
    SelectSeq([i \in 1..Len(as) |-> Advanced(as[i], dtMs, m)], OnField)

\* C18: no asteroid of the active set is off screen at a tick boundary, and a
\* Playing or GameOver tick leaves exactly the asteroids of before (and of this
\* tick's batch), each advanced once, minus those now off screen, in order.
C18_CullOffScreen ==
    /\ [](\A i \in 1..Len(asteroids) : OnField(asteroids[i]) /\ ~isOffScreen(asteroids[i]))
    /\ [][ /\ (state = "playing" /\ hist.ticks' = hist.ticks + 1) =>
              \E fresh \in (IF hist.batches' = hist.batches THEN {<<>>}
                            ELSE {[i \in 1..asteroidBatchSize |-> NewAsteroid(b[i])] :
                                     b \in Batches}) :
                 asteroids' = AdvancedAndCulled(asteroids \o fresh, Min(hist.gap', 50),
                                                speedMultiplier')
           /\ (state = "gameover" /\ hist.goTicks' = hist.goTicks + 1) =>
                 asteroids' = AdvancedAndCulled(asteroids, Min(hist.gap', 50), 10)
         ]_vars

\* a game-over tick has removed a whole batch, three adjacent entries that flew
\* together, and kept the asteroids behind them
C18_Witness ==
    /\ state = "gameover"
    /\ hist.goTicks >= 1
    /\ hist.culled = asteroidBatchSize
    /\ \E i \in 1..Len(asteroids) : asteroids[i].baseVy # 0

\* C19: a GameOver tick moves every remaining asteroid at multiplier 1, whatever
\* the surge state the run ended in, and adds none; it stays in GameOver and
\* commits nothing, whatever lies over the ship; it leaves the surge and spawn
\* timers, the ship and the elapsed time as they were.
C19_GameOverDrift ==
    [][ (state = "gameover" /\ hist.goTicks' = hist.goTicks + 1) =>
          /\ \A j \in 1..Len(asteroids') :
                \E i \in 1..Len(asteroids) :
                   IsMoveOf(asteroids'[j], asteroids[i], Min(hist.gap', 50), 10)
          /\ Len(asteroids') <= Len(asteroids)
          /\ hist.spawned' = hist.spawned
          /\ state' = "gameover"
          /\ hist.addCalls' = hist.addCalls
          /\ storage' = storage
          /\ UNCHANGED <<spawnTimer, surgeActive, surgeTimer, surgeDurationTimer,
                         speedMultiplier, ship, elapsedTime, finalScore>>
      ]_vars

\* the run ended during a surge; a GameOver tick later an asteroid still lies
\* over the ship
C19_Witness ==
    /\ state = "gameover"
    /\ surgeActive
    /\ hist.goTicks >= 1
    /\ \E i \in 1..Len(asteroids) : Within(ship, asteroids[i])

\* C20: whenever a run starts, the ship is at the field centre, there is no
\* asteroid, elapsed time and spawn timer are 0, the surge is Idle with
\* multiplier 1 and a countdown within the surge interval range, and the
\* lockout is not elapsed, its timer at 0; the score store is as the earlier
\* runs left it.
C20_FreshRun ==
    [][ (state = "title" /\ state' = "playing") =>
          /\ ship' = [x |-> (canvasWidth * Px) \div 2, y |-> (canvasHeight * Px) \div 2]
          /\ asteroids' = <<>>
          /\ elapsedTime' = F0
          /\ spawnTimer' = 0
          /\ ~surgeActive'
          /\ speedMultiplier' = 10
          /\ surgeIntervalMin <= surgeTimer' /\ surgeTimer' <= surgeIntervalMax
          /\ surgeDurationTimer' = 0
          /\ ~gameOverReady'
          /\ gameOverTimer' = F0
          /\ storage' = storage
      ]_vars

\* a second run has just started after one that lasted into the surge time and
\* left its score
C20_Witness ==
    /\ state = "playing"
    /\ hist.runs = MaxRuns
    /\ hist.ticks = 0
    /\ storage.kind = "list"
    /\ Len(storage.v) = 1
    /\ FGt(storage.v[1], FInt(surgeIntervalMin \div 1000))
    /\ asteroids = <<>>

\* C21 as claimed: the best score shown in GameOver is never below the final score
C21_BestIncludesFinal == state = "gameover" => FGe(bestScore, finalScore)

\* C21: in a GameOver state whose commit was written the best score is at
\* least the final score; after a failed write it is the best of the scores
\* stored before the run.  Either way the new-best condition finalScore >=
\* bestScore holds exactly when the final score is at least every score
\* stored before the run, and GameOver ticks leave the snapshot alone.
C21_BestAfterCommit ==
    /\ [](state = "gameover" =>
            /\ hist.writeFailed \/ FGe(bestScore, finalScore)
            /\ bestScore = IF Len(Load(storage).v) = 0 THEN F0
                           ELSE SortDesc(Load(storage).v)[1])
    /\ [][ /\ (state = "playing" /\ state' = "gameover") =>
              /\ FGe(finalScore', bestScore')
                   <=> \A i \in 1..Len(Load(storage).v) :
                          FGe(finalScore', Load(storage).v[i])
              /\ hist.writeFailed' => storage' = storage
           /\ (state = "gameover" /\ state' = "gameover") =>
                 bestScore' = bestScore /\ finalScore' = finalScore
         ]_vars

\* a second run tied the first one's score: it is stored twice and is a new best
C21_Witness ==
    /\ state = "gameover"
    /\ ~hist.writeFailed
    /\ storage.kind = "list"
    /\ Count(storage.v, finalScore) = 2
    /\ bestScore = finalScore

\* C22: one key press makes at most one lifecycle transition: a press accepted
\* as restart ends in Title with no run started and the simulation fields as
\* GameOver left them, a press accepted as start ends in Playing with one run
\* started, and a run only ever starts from Title.
C22_OneTransitionPerPress ==
    [][ /\ (state = "gameover" /\ state' # "gameover") =>
              /\ state' = "title"
              /\ hist.runs' = hist.runs
              /\ UNCHANGED <<ship, asteroids, elapsedTime, spawnTimer, surgeTimer,
                             gameOverReady, gameOverTimer, finalScore, storage>>
        /\ (state = "title" /\ state' # "title") =>
              /\ state' = "playing"
              /\ hist.runs' = hist.runs + 1
        /\ hist.runs' # hist.runs => state = "title"
      ]_vars

\* a restart was accepted: the game is in Title, the run before is still the
\* only one
C22_Witness ==
    /\ state = "title"
    /\ gameOverReady
    /\ hist.runs = 1
    /\ hist.addCalls = 1
    /\ hist.goTicks >= 1

=============================================================================
